---- MODULE Spec2Model ----
(***************************************************************************)
(* Model of drift_gui.py, the EBPG beam-drift log plotter.                 *)
(*                                                                         *)
(* The script is one linear run: header check, one pass over the lines of  *)
(* the selected file, the no-drift-data check, position normalisation, the *)
(* wafer plot and the drift-rate plot.  A line of the file is represented  *)
(* by what the script's four regular expressions and the header test       *)
(* capture from it; floats are fixed-point integers; a datetime is the     *)
(* number of minutes since the start of the proleptic Gregorian calendar.  *)
(***************************************************************************)
EXTENDS Integers, Sequences, FiniteSets, TLC

(* ---------------- Python values ---------------- *)

\* None, or a name that is not bound yet: the empty tuple; a value v: <<v>>.
None == <<>>

Some(v) == <<v>>

IsSome(o) == o # <<>>

Get(o) == o[1]

\* The text captured by a numeric group: a text float() accepts, with its
\* value, or a text float() rejects (the class [0-9.-]+ also matches "1-2").
Num(v) == <<"num", v>>

BadNum == <<"bad">>

FloatOk(t) == t[1] = "num"

Float(t) == t[2]

(* ---------------- units ---------------- *)

\* A length in millimetres is held as an integer number of tenths of a
\* micrometre.
UnitsPerMm == 10000

\* An integer number of millimetres as a length.
Mm(v) == v * UnitsPerMm

\* A faulty variant of MmOfUm: the division by 1000 left out.
MmOfUmUnconverted(um) == um * UnitsPerMm

\* float(group) / 1000: micrometres to millimetres.

MmOfUm(um) == (um * UnitsPerMm) \div 1000

(* ---------------- datetime ---------------- *)

MinutesPerDay == 1440

MonthNames == <<"Jan", "Feb", "Mar", "Apr", "May", "Jun",
                "Jul", "Aug", "Sep", "Oct", "Nov", "Dec">>

IsLeap(y) == (y % 4 = 0) /\ ((y % 100 # 0) \/ (y % 400 = 0))

DaysInMonth(y, m) ==
    IF m = 2 THEN (IF IsLeap(y) THEN 29 ELSE 28)
    ELSE IF m \in {4, 6, 9, 11} THEN 30 ELSE 31

RECURSIVE DaysBeforeMonth(_, _)
DaysBeforeMonth(y, m) ==
    IF m = 1 THEN 0 ELSE DaysBeforeMonth(y, m - 1) + DaysInMonth(y, m - 1)

DaysBeforeYear(y) ==
    (y - 1) * 365 + ((y - 1) \div 4) - ((y - 1) \div 100) + ((y - 1) \div 400)

\* datetime.strptime(f'{dyear}-{dmonth}-{dday} {hour}:{minute}:00',
\* '%Y-%b-%d %H:%M:%S'): None stands for the ValueError it raises.
Strptime(year, month, day, hour, minute) ==
    IF \E m \in 1..12 : MonthNames[m] = month
    THEN LET m == CHOOSE k \in 1..12 : MonthNames[k] = month
         IN  IF /\ year >= 1
                /\ day >= 1 /\ day <= DaysInMonth(year, m)
                /\ hour <= 23 /\ minute <= 59
             THEN Some((DaysBeforeYear(year) + DaysBeforeMonth(year, m) + day)
                         * MinutesPerDay + hour * 60 + minute)
             ELSE None
    ELSE None

\* Faulty variants of Rollover: no correction at all, and a correction that
\* also applies to a candidate equal to the cursor.
RolloverNeverAdjusts(timestamp, previous) == timestamp

RolloverOnEqual(timestamp, previous) ==
    IF IsSome(previous) /\ timestamp <= Get(previous)
    THEN timestamp + MinutesPerDay
    ELSE timestamp

\* The day-transition correction of a candidate timestamp: a day is added
\* when there is a previous timestamp and the candidate is earlier.
Rollover(timestamp, previous) ==
    IF IsSome(previous) /\ timestamp < Get(previous)
    THEN timestamp + MinutesPerDay
    ELSE timestamp

(* ---------------- lines of the log file ---------------- *)

\* A line: whether it contains "JMAN LOGFILE", and the groups captured by
\* the wafer-centre, date, drift-rate and calibration-block patterns
\* (None where the pattern does not match).
Line(marker, centre, date, drift, block) ==
    [marker |-> marker, centre |-> centre, date |-> date,
     drift |-> drift, block |-> block]

CentreGroups(cx, cy, sx, sy) == Some([cx |-> cx, cy |-> cy, sx |-> sx, sy |-> sy])

DateGroups(dw, mon, day, tm, tz, yr) ==
    Some([dweek |-> dw, dmonth |-> mon, dday |-> day, dtime |-> tm,
          dtzone |-> tz, dyear |-> yr])

DriftGroups(h, m, dx, dy) ==
    Some([hour |-> h, minute |-> m, dxdt |-> dx, dydt |-> dy])

BlockGroups(n, x, y) == Some([block_number |-> n, x_coord |-> x, y_coord |-> y])

Hdr == Line(TRUE, None, None, None, None)

Other == Line(FALSE, None, None, None, None)

CentreA ==
    Line(FALSE, CentreGroups(Num(1500), Num(-2500), Num(100000), Num(80000)),
         None, None, None)

CentreB ==
    Line(FALSE, CentreGroups(Num(-4000), Num(250), Num(150000), Num(150000)),
         None, None, None)

CentreBad ==
    Line(FALSE, CentreGroups(Num(1500), Num(-2500), BadNum, Num(80000)),
         None, None, None)

DateNov30 ==
    Line(FALSE, None, DateGroups("Sat", "Nov", 30, "17:30:26", "AEST", 2024),
         None, None)

DateNov31 ==
    Line(FALSE, None, DateGroups("Sun", "Nov", 31, "09:00:00", "AEST", 2024),
         None, None)

Drift2358 == Line(FALSE, None, None, DriftGroups(23, 58, -500, 250), None)

Drift2359 == Line(FALSE, None, None, DriftGroups(23, 59, 75, -40), None)

Drift0002 == Line(FALSE, None, None, DriftGroups(0, 2, 320, -110), None)

Drift0005 == Line(FALSE, None, None, DriftGroups(0, 5, -110, 110), None)

Drift0009 == Line(FALSE, None, None, DriftGroups(0, 9, 500, -250), None)

Drift2500 == Line(FALSE, None, None, DriftGroups(25, 0, 100, 100), None)

DateDriftNov30 ==
    Line(FALSE, None, DateGroups("Sat", "Nov", 30, "23:58:07", "AEST", 2024),
         DriftGroups(23, 58, -500, 250), None)

DateDriftDec01 ==
    Line(FALSE, None, DateGroups("Sun", "Dec", 1, "00:02:10", "AEST", 2024),
         DriftGroups(0, 2, 320, -110), None)

Block1 == Line(FALSE, None, None, None, BlockGroups(1, Mm(12), Mm(-7)))

Block2 == Line(FALSE, None, None, None, BlockGroups(2, Mm(-30), Mm(5)))

Block1b == Line(FALSE, None, None, None, BlockGroups(1, Mm(-3), Mm(40)))

(* ---------------- bounds and inputs ---------------- *)

MaxLines == 4

MaxTimeLines == 5

MaxGeomLines == 5

MaxStatLines == 6

\* Lines of every kind, the malformed ones among them.
Alphabet ==
    {Hdr, Other, CentreA, CentreBad, DateNov30, DateNov31,
     Drift2358, Drift2500, DateDriftNov30, Block1}

\* Well-formed dates and drift samples around midnight.
TimeAlphabet ==
    {Hdr, CentreA, DateNov30, DateDriftDec01, Drift2359, Drift2358, Drift0002}

\* Wafer centres and calibration blocks.

GeomAlphabet == {Hdr, DateDriftNov30, CentreA, CentreB, Block1, Block2, Block1b}

\* Drift rates of both signs and of equal magnitude.
StatAlphabet ==
    {Hdr, CentreA, DateNov30, Drift2358, Drift0002, Drift0005, Drift0009}

\* Every file of at most n lines over the lines of S.
Files(S, n) == UNION {[1..k -> S] : k \in 0..n}

(* ---------------- pure helpers of the script ---------------- *)

\* A faulty variant of HeaderValid: the marker is not looked for.
HeaderAlwaysValid(path_) == TRUE

\* "JMAN LOGFILE" in first_line, first_line being "" for an empty file.

HeaderValid(path_) == Len(path_) > 0 /\ path_[1].marker

\* The number of leading groups of a wafer-centre match that float()
\* accepts: the conversions run in the order cx, cy, sx, sy and the first
\* rejected text raises ValueError.
CentreParsed(c) ==
    IF ~FloatOk(c.cx) THEN 0
    ELSE IF ~FloatOk(c.cy) THEN 1
    ELSE IF ~FloatOk(c.sx) THEN 2
    ELSE IF ~FloatOk(c.sy) THEN 3
    ELSE 4

\* A faulty variant of WaferCentreAfter: only the first match is kept.
WaferCentreFirstWins(old, c) ==
    IF old = <<>> THEN <<MmOfUm(Float(c.cx)), MmOfUm(Float(c.cy))>> ELSE old

\* wafer_centre after a wafer-centre match whose four groups parse.
WaferCentreAfter(old, c) == <<MmOfUm(Float(c.cx)), MmOfUm(Float(c.cy))>>

\* A faulty variant of DateUnbound: the names start bound to a date.
DateBoundAtStart ==
    [dyear |-> Some(1970), dmonth |-> Some("Jan"), dday |-> Some(1),
     dtime |-> Some("00:00:00")]

\* The names dyear, dmonth, dday, dtime before any date match: not bound.
DateUnbound == [dyear |-> None, dmonth |-> None, dday |-> None, dtime |-> None]

\* A faulty variant of DateFieldsAfter: only the first date line is kept.
DateFieldsFirstOnly(old, d) ==
    IF IsSome(old.dyear) THEN old
    ELSE [dyear |-> Some(d.dyear), dmonth |-> Some(d.dmonth),
          dday |-> Some(d.dday), dtime |-> Some(d.dtime)]

\* dweek, dmonth, dday, dtime, dtzone, dyear = datematch.groups()
DateFieldsAfter(old, d) ==
    [dyear |-> Some(d.dyear), dmonth |-> Some(d.dmonth),
     dday |-> Some(d.dday), dtime |-> Some(d.dtime)]

\* A faulty variant of NoDriftData: the test inverted.
NoDriftDataInverted(found) == found

\* not drift_data_found

NoDriftData(found) == ~found

\* The key (x[0], x[1], x[2]) of sorted(): tuples compare lexicographically.
KeyLess(a, b) ==
    \/ a[1] < b[1]
    \/ a[1] = b[1] /\ a[2] < b[2]
    \/ a[1] = b[1] /\ a[2] = b[2] /\ a[3] < b[3]

\* Insert e into the sorted sequence s after every element not greater
\* than it (sorted() is stable).
RECURSIVE Insert(_, _)
Insert(s, e) ==
    IF s = <<>> THEN <<e>>
    ELSE IF KeyLess(e, s[1]) THEN <<e>> \o s
    ELSE <<s[1]>> \o Insert(Tail(s), e)

RECURSIVE Sorted(_)
Sorted(s) ==
    IF s = <<>> THEN <<>>
    ELSE Insert(Sorted(SubSeq(s, 1, Len(s) - 1)), s[Len(s)])

\* The loop over sorted_drift_pos_data: one relative entry per block.
RelativeTo(blocks, centre) ==
    [k \in 1..Len(blocks) |->
        <<blocks[k][1], blocks[k][2] - centre[1], blocks[k][3] - centre[2]>>]

Abs(v) == IF v < 0 THEN -v ELSE v

\* min(values, key=abs): the first element of least magnitude.
RECURSIVE MinAbsFrom(_, _, _)
MinAbsFrom(s, k, best) ==
    IF k > Len(s) THEN best
    ELSE MinAbsFrom(s, k + 1, IF Abs(s[k]) < Abs(best) THEN s[k] ELSE best)

\* A faulty variant of MinAbs: min() without key=abs.
RECURSIVE MinPlainFrom(_, _, _)
MinPlainFrom(s, k, best) ==
    IF k > Len(s) THEN best
    ELSE MinPlainFrom(s, k + 1, IF s[k] < best THEN s[k] ELSE best)

MinPlain(s) == MinPlainFrom(s, 2, s[1])

MinAbs(s) == MinAbsFrom(s, 2, s[1])

\* max(values, key=abs): the first element of greatest magnitude.
RECURSIVE MaxAbsFrom(_, _, _)
MaxAbsFrom(s, k, best) ==
    IF k > Len(s) THEN best
    ELSE MaxAbsFrom(s, k + 1, IF Abs(s[k]) > Abs(best) THEN s[k] ELSE best)

MaxAbs(s) == MaxAbsFrom(s, 2, s[1])

\* A faulty variant of SizeKnown: the names taken to be always bound.
SizeAssumedKnown(sx, sy) == TRUE

\* Whether the names size_x and size_y are bound when the plot reads them.

SizeKnown(sx, sy) == IsSome(sx) /\ IsSome(sy)

\* Half of a size, for the plot limits.
Half(s) == IF IsSome(s) THEN Get(s) \div 2 ELSE 0

(* ---------------- state ---------------- *)

VARIABLES
    path,                   \* the lines of the selected file
    pc,                     \* the position of the run
    i,                      \* lines the scan has completed
    wafer_centre, centre_x, centre_y, size_x, size_y,
    dyear, dmonth, dday, dtime,
    run_date, run_start_time,
    previous_timestamp,
    drift_data_found,
    timestamps, dxdt_values, dydt_values,
    drift_pos_data,
    sorted_relative_drift_pos_data,
    time_values,
    min_dx, max_dx, min_dy, max_dy,
    stdout,                 \* what was printed, in order
    plot_calls,             \* the matplotlib calls made, in order
    error                   \* the uncaught exception, "" while there is none

geometry == <<wafer_centre, centre_x, centre_y, size_x, size_y>>

datectx == <<dyear, dmonth, dday, dtime, run_date, run_start_time>>

samples ==
    <<previous_timestamp, drift_data_found, timestamps, dxdt_values, dydt_values>>

results ==
    <<sorted_relative_drift_pos_data, time_values, min_dx, max_dx, min_dy, max_dy>>

vars ==
    <<path, pc, i, geometry, datectx, samples, drift_pos_data, results,
      stdout, plot_calls, error>>

InvalidLogfileMsg == <<"Error: This is not a valid EBPG logfile">>

NoDriftDataMsg ==
    <<"Error: Log file is correct, but it contains no drift calibration points">>

\* The state once the file is selected and read and the lists are created.
Start(files) ==
    /\ path \in files
    /\ pc = "header"
    /\ i = 0
    /\ wafer_centre = <<>>
    /\ centre_x = None /\ centre_y = None /\ size_x = None /\ size_y = None
    /\ dyear = DateUnbound.dyear /\ dmonth = DateUnbound.dmonth
    /\ dday = DateUnbound.dday /\ dtime = DateUnbound.dtime
    /\ run_date = None /\ run_start_time = None
    /\ previous_timestamp = None
    /\ drift_data_found = FALSE
    /\ timestamps = <<>> /\ dxdt_values = <<>> /\ dydt_values = <<>>
    /\ drift_pos_data = <<>>
    /\ sorted_relative_drift_pos_data = <<>>
    /\ time_values = <<>>
    /\ min_dx = None /\ max_dx = None /\ min_dy = None /\ max_dy = None
    /\ stdout = <<>>
    /\ plot_calls = <<>>
    /\ error = ""

Init == Start(Files(Alphabet, MaxLines))

InitTime == Start(Files(TimeAlphabet, MaxTimeLines))

InitGeom == Start(Files(GeomAlphabet, MaxGeomLines))

InitStat == Start(Files(StatAlphabet, MaxStatLines))

(* ---------------- the run ---------------- *)

\* The check of the first line.
HeaderCheck ==
    /\ pc = "header"
    /\ IF HeaderValid(path)
       THEN pc' = "scan" /\ stdout' = stdout
       ELSE pc' = "exit" /\ stdout' = Append(stdout, InvalidLogfileMsg)
    /\ UNCHANGED <<path, i, geometry, datectx, samples, drift_pos_data,
                   results, plot_calls, error>>

\* One iteration of the loop over path.splitlines(): the four searches in
\* the order of the code.  An exception ends the run inside the iteration:
\* what the iteration assigned before it stays assigned.
ScanLine ==
    /\ pc = "scan"
    /\ i < Len(path)
    /\ LET line == path[i + 1]
           \* wafer centre (lines 76-85)
           hasCentre == IsSome(line.centre)
           c == Get(line.centre)
           parsed == IF hasCentre THEN CentreParsed(c) ELSE 0
           centreError == hasCentre /\ parsed < 4
           centreDone == hasCentre /\ parsed = 4
           cx1 == IF hasCentre /\ parsed >= 1 THEN Some(MmOfUm(Float(c.cx))) ELSE centre_x
           cy1 == IF hasCentre /\ parsed >= 2 THEN Some(MmOfUm(Float(c.cy))) ELSE centre_y
           sx1 == IF hasCentre /\ parsed >= 3 THEN Some(MmOfUm(Float(c.sx))) ELSE size_x
           sy1 == IF centreDone THEN Some(MmOfUm(Float(c.sy))) ELSE size_y
           wc1 == IF centreDone THEN WaferCentreAfter(wafer_centre, c) ELSE wafer_centre
           out1 == IF centreDone
                   THEN stdout \o << <<"Centre", Get(cx1), Get(cy1)>>,
                                     <<"Size", Get(sx1), Get(sy1)>> >>
                   ELSE stdout
           \* date (lines 88-96)
           hasDate == ~centreError /\ IsSome(line.date)
           old == [dyear |-> dyear, dmonth |-> dmonth, dday |-> dday, dtime |-> dtime]
           ctx == IF hasDate THEN DateFieldsAfter(old, Get(line.date)) ELSE old
           setRun == hasDate /\ run_date = None
           rd1 == IF setRun
                  THEN Some(<<Get(ctx.dyear), Get(ctx.dmonth), Get(ctx.dday)>>)
                  ELSE run_date
           rs1 == IF setRun THEN ctx.dtime ELSE run_start_time
           \* drift rate (lines 99-124)
           hasDrift == ~centreError /\ IsSome(line.drift)
           d == Get(line.drift)
           nameError == hasDrift /\ ~IsSome(ctx.dyear)
           parsedTime == IF hasDrift /\ ~nameError
                         THEN Strptime(Get(ctx.dyear), Get(ctx.dmonth), Get(ctx.dday),
                                       d.hour, d.minute)
                         ELSE None
           valueError == hasDrift /\ ~nameError /\ ~IsSome(parsedTime)
           driftDone == hasDrift /\ ~nameError /\ ~valueError
           timestamp == IF driftDone
                        THEN Rollover(Get(parsedTime), previous_timestamp)
                        ELSE 0
           driftError == nameError \/ valueError
           \* calibration block (lines 127-133)
           hasBlock == ~centreError /\ ~driftError /\ IsSome(line.block)
           b == Get(line.block)
       IN  /\ centre_x' = cx1 /\ centre_y' = cy1
           /\ size_x' = sx1 /\ size_y' = sy1
           /\ wafer_centre' = wc1
           /\ stdout' = out1
           /\ dyear' = ctx.dyear /\ dmonth' = ctx.dmonth
           /\ dday' = ctx.dday /\ dtime' = ctx.dtime
           /\ run_date' = rd1 /\ run_start_time' = rs1
           /\ drift_data_found' = (drift_data_found \/ hasDrift)
           /\ previous_timestamp' =
                  IF driftDone THEN Some(timestamp) ELSE previous_timestamp
           /\ timestamps' = IF driftDone THEN Append(timestamps, timestamp)
                            ELSE timestamps
           /\ dxdt_values' = IF driftDone THEN Append(dxdt_values, d.dxdt)
                             ELSE dxdt_values
           /\ dydt_values' = IF driftDone THEN Append(dydt_values, d.dydt)
                             ELSE dydt_values
           /\ drift_pos_data' =
                  IF hasBlock
                  THEN Append(drift_pos_data, <<b.block_number, b.x_coord, b.y_coord>>)
                  ELSE drift_pos_data
           /\ IF centreError \/ valueError
              THEN pc' = "error" /\ error' = "ValueError" /\ i' = i
              ELSE IF nameError
              THEN pc' = "error" /\ error' = "NameError" /\ i' = i
              ELSE pc' = "scan" /\ error' = error /\ i' = i + 1
    /\ UNCHANGED <<path, results, plot_calls>>

\* The check after the loop that some drift data was found.
NoDataCheck ==
    /\ pc = "scan"
    /\ i = Len(path)
    /\ IF NoDriftData(drift_data_found)
       THEN pc' = "exit" /\ stdout' = Append(stdout, NoDriftDataMsg)
       ELSE pc' = "normalize" /\ stdout' = stdout
    /\ UNCHANGED <<path, i, geometry, datectx, samples, drift_pos_data,
                   results, plot_calls, error>>

\* Sort the blocks, subtract the wafer centre, sort again and print.
\* wafer_centre[0] raises IndexError on the first block when the list is
\* still empty.
Normalize ==
    /\ pc = "normalize"
    /\ LET sorted_drift_pos_data == Sorted(drift_pos_data)
       IN  IF sorted_drift_pos_data # <<>> /\ Len(wafer_centre) = 0
           THEN /\ pc' = "error" /\ error' = "IndexError"
                /\ UNCHANGED <<sorted_relative_drift_pos_data, stdout>>
           ELSE LET relative_drift_pos_data ==
                        RelativeTo(sorted_drift_pos_data, wafer_centre)
                    sorted_relative == Sorted(relative_drift_pos_data)
                IN  /\ sorted_relative_drift_pos_data' = sorted_relative
                    /\ stdout' =
                           stdout
                           \o << <<"Relative Drift Calibration Absolution Positions">> >>
                           \o [k \in 1..Len(sorted_relative) |->
                                 <<"Relative", sorted_relative[k][2],
                                   sorted_relative[k][3]>>]
                    /\ pc' = "waferplot" /\ error' = error
    /\ UNCHANGED <<path, i, geometry, datectx, samples, drift_pos_data,
                   time_values, min_dx, max_dx, min_dy, max_dy, plot_calls>>

\* The wafer plot.  plt.figure() is called before size_x is read, which
\* raises NameError when no wafer-centre line was matched.
WaferPlot ==
    /\ pc = "waferplot"
    /\ IF ~SizeKnown(size_x, size_y)
       THEN /\ plot_calls' = Append(plot_calls, <<"figure">>)
            /\ pc' = "error" /\ error' = "NameError"
       ELSE /\ plot_calls' =
                   plot_calls
                   \o << <<"figure">>,
                         <<"xlim", -Half(size_x), Half(size_x)>>,
                         <<"ylim", -Half(size_y), Half(size_y)>> >>
                   \o [k \in 1..Len(sorted_relative_drift_pos_data) |->
                         <<"scatter", sorted_relative_drift_pos_data[k][2],
                           sorted_relative_drift_pos_data[k][3]>>]
                   \o << <<"scatter", 0, 0>>, <<"xlabel">>, <<"ylabel">>,
                         <<"title">>, <<"legend">>, <<"grid">>, <<"show">> >>
            /\ pc' = "timeseries" /\ error' = error
    /\ UNCHANGED <<path, i, geometry, datectx, samples, drift_pos_data,
                   results, stdout>>

\* Elapsed minutes, the extreme drift rates by magnitude, the drift plot.
TimeSeriesPlot ==
    /\ pc = "timeseries"
    /\ LET start_time == timestamps[1]
       IN  time_values' = [k \in 1..Len(timestamps) |-> timestamps[k] - start_time]
    /\ min_dx' = Some(MinAbs(dxdt_values))
    /\ max_dx' = Some(MaxAbs(dxdt_values))
    /\ min_dy' = Some(MinAbs(dydt_values))
    /\ max_dy' = Some(MaxAbs(dydt_values))
    /\ stdout' = Append(stdout, <<"Min/Max", Get(min_dx'), Get(max_dx'),
                                   Get(min_dy'), Get(max_dy')>>)
    /\ plot_calls' =
           plot_calls
           \o << <<"plot", time_values', dxdt_values>>,
                 <<"plot", time_values', dydt_values>>,
                 <<"text", Get(min_dx'), Get(max_dx'), Get(min_dy'), Get(max_dy')>>,
                 <<"xlabel">>, <<"ylabel">>,
                 <<"title", run_date, run_start_time>>,
                 <<"legend">>, <<"grid">>, <<"show">> >>
    /\ pc' = "done"
    /\ UNCHANGED <<path, i, geometry, datectx, samples, drift_pos_data,
                   sorted_relative_drift_pos_data, error>>

Next ==
    \/ HeaderCheck
    \/ ScanLine
    \/ NoDataCheck
    \/ Normalize
    \/ WaferPlot
    \/ TimeSeriesPlot

Spec == Init /\ [][Next]_vars

SpecTime == InitTime /\ [][Next]_vars

SpecGeom == InitGeom /\ [][Next]_vars

SpecStat == InitStat /\ [][Next]_vars

(* ---------------- what a file contains ---------------- *)

HasMarker == Len(path) > 0 /\ path[1].marker

CentreLines(p) == {k \in 1..Len(p) : p[k].centre # <<>>}

DateLines(p) == {k \in 1..Len(p) : p[k].date # <<>>}

DriftLines(p) == {k \in 1..Len(p) : p[k].drift # <<>>}

BlockLines(p) == {k \in 1..Len(p) : p[k].block # <<>>}

Scanned == SubSeq(path, 1, i)

Printed(msg) == \E k \in 1..Len(stdout) : stdout[k] = msg

Shown == \E k \in 1..Len(plot_calls) : plot_calls[k] = <<"show">>

Ended == pc \in {"exit", "error", "done"}

PastScan == pc \in {"normalize", "waferplot", "timeseries", "done"}

Min(S) == CHOOSE k \in S : \A j \in S : k <= j

Max(S) == CHOOSE k \in S : \A j \in S : k >= j

(* ---------------- C1 ---------------- *)

\* C1: a file whose first line lacks the JMAN LOGFILE marker (an empty file
\* included) prints the invalid-logfile message and stops before the scan:
\* no line is scanned, no drift sample or calibration block is recorded, no
\* plot call is made, whatever the other lines contain.
C1_InvalidHeaderStops ==
    ~HasMarker =>
        /\ pc \in {"header", "exit"}
        /\ i = 0
        /\ ~drift_data_found
        /\ timestamps = <<>> /\ dxdt_values = <<>> /\ dydt_values = <<>>
        /\ drift_pos_data = <<>>
        /\ wafer_centre = <<>>
        /\ plot_calls = <<>>
        /\ error = ""
        /\ stdout = IF pc = "exit" THEN <<InvalidLogfileMsg>> ELSE <<>>

C1_Witness ==
    /\ pc = "exit"
    /\ ~HasMarker
    /\ DriftLines(path) # {} /\ CentreLines(path) # {} /\ DateLines(path) # {}
    /\ stdout = <<InvalidLogfileMsg>>

(* ---------------- C2 ---------------- *)

\* A line whose wafer-centre match carries a group float() rejects.
BadCentreLine(l) == l.centre # <<>> /\ \E f \in {"cx", "cy", "sx", "sy"} : l.centre[1][f] = BadNum

\* C2 as stated: with a valid header and no drift-rate line the run ends
\* with the no-data message and no plot, whatever the other lines are; and
\* the no-data message is never printed when a drift-rate line was matched.
C2_Original ==
    /\ (HasMarker /\ DriftLines(path) = {} /\ Ended) =>
           /\ pc = "exit"
           /\ stdout[Len(stdout)] = NoDriftDataMsg
           /\ plot_calls = <<>>
    /\ Printed(NoDriftDataMsg) => ~drift_data_found

\* C2 amended: with a valid header and no drift-rate line no plot call is
\* ever made and the run ends either with the no-data message, after the
\* whole file was scanned, or with the uncaught ValueError of a wafer-centre
\* line whose numeric group float() rejects, at that line; the no-data
\* message is never printed when a drift-rate line was matched.
C2_NoDataOrConversionError ==
    /\ (HasMarker /\ DriftLines(path) = {}) =>
           /\ plot_calls = <<>>
           /\ ~PastScan
           /\ pc = "exit" =>
                  /\ stdout[Len(stdout)] = NoDriftDataMsg
                  /\ i = Len(path)
                  /\ \A k \in 1..Len(path) : ~BadCentreLine(path[k])
           /\ pc = "error" =>
                  /\ error = "ValueError"
                  /\ BadCentreLine(path[i + 1])
                  /\ ~Printed(NoDriftDataMsg)
           /\ (pc = "scan" /\ i = Len(path)) => ~drift_data_found
    /\ Printed(NoDriftDataMsg) =>
           /\ DriftLines(path) = {}
           /\ ~drift_data_found
           /\ pc = "exit"

C2_Witness ==
    /\ pc = "exit"
    /\ HasMarker
    /\ DriftLines(path) = {}
    /\ CentreLines(path) # {} /\ DateLines(path) # {} /\ BlockLines(path) # {}
    /\ stdout[Len(stdout)] = NoDriftDataMsg

(* ---------------- C3 ---------------- *)

\* The year, month and day of the date line in force at line k: the last
\* date line at or before k.
ContextAt(p, k) ==
    LET g == p[Max({j \in DateLines(p) : j <= k})].date[1]
    IN  <<g.dyear, g.dmonth, g.dday>>

\* The k-th drift-rate line of p.
NthDrift(p, k) ==
    CHOOSE j \in DriftLines(p) : Cardinality({m \in DriftLines(p) : m <= j}) = k

\* The step records a drift sample.
Records == Len(timestamps') = Len(timestamps) + 1

\* The rule of a recording step: the candidate is built from the date
\* context in force and the matched hour and minute; it is recorded as it
\* is when the cursor is empty or not later than it, and 24 hours later
\* otherwise; the cursor becomes the recorded timestamp.  Every drift-rate
\* line the scan completes records exactly one timestamp.
RolloverRule ==
    /\ Records =>
           LET d == path[i + 1].drift[1]
               candidate == Strptime(dyear'[1], dmonth'[1], dday'[1], d.hour, d.minute)
               recorded == timestamps'[Len(timestamps')]
           IN  /\ path[i + 1].drift # <<>>
               /\ candidate # <<>>
               /\ recorded =
                      IF previous_timestamp = <<>> THEN candidate[1]
                      ELSE IF candidate[1] >= previous_timestamp[1] THEN candidate[1]
                      ELSE candidate[1] + 24 * 60
               /\ previous_timestamp' = <<recorded>>
               /\ SubSeq(timestamps', 1, Len(timestamps)) = timestamps
    /\ (pc = "scan" /\ pc' = "scan" /\ path[i + 1].drift # <<>>) => Records
    /\ ~Records => /\ timestamps' = timestamps
                   /\ previous_timestamp' = previous_timestamp

\* The step records a sample at 00:02 right after a sample at 23:58, the
\* same date being in force at both lines.
MidnightPair ==
    /\ Records
    /\ timestamps # <<>>
    /\ LET d == path[i + 1].drift[1]
           last == NthDrift(Scanned, Len(timestamps))
       IN  /\ d.hour = 0 /\ d.minute = 2
           /\ path[last].drift[1].hour = 23 /\ path[last].drift[1].minute = 58
           /\ ContextAt(path, last) = ContextAt(path, i + 1)

FourMinutesApart ==
    timestamps'[Len(timestamps')] - timestamps[Len(timestamps)] = 4

\* The 23:58 sample was recorded as its own candidate, without correction.
LastUncorrected ==
    LET last == NthDrift(Scanned, Len(timestamps))
        c == ContextAt(path, last)
    IN  Some(timestamps[Len(timestamps)]) = Strptime(c[1], c[2], c[3], 23, 58)

\* C3 as stated: the rule, and two consecutive samples at 23:58 and 00:02
\* under the same date context are always recorded 4 minutes apart.
C3_Original ==
    [][RolloverRule /\ (MidnightPair => FourMinutesApart)]_vars

\* C3 amended: the rule, and two consecutive samples at 23:58 and 00:02
\* under the same date context are recorded 4 minutes apart when the 23:58
\* sample was itself recorded without the 24-hour correction.
C3_RolloverRule ==
    [][RolloverRule /\ ((MidnightPair /\ LastUncorrected) => FourMinutesApart)]_vars

C3_Witness ==
    /\ Len(timestamps) = 2
    /\ path[NthDrift(Scanned, 1)].drift[1].hour = 23
    /\ path[NthDrift(Scanned, 1)].drift[1].minute = 58
    /\ path[NthDrift(Scanned, 2)].drift[1].hour = 0
    /\ ContextAt(path, NthDrift(Scanned, 1)) = ContextAt(path, NthDrift(Scanned, 2))
    /\ timestamps[2] = timestamps[1] + 4
    /\ previous_timestamp = <<timestamps[2]>>

(* ---------------- C4 ---------------- *)

\* The first minute of the day of a date line.
DayStart(l) == Strptime(l.date[1].dyear, l.date[1].dmonth, l.date[1].dday, 0, 0)

DatesNeverBack(p) ==
    \A j, k \in DateLines(p) :
        j < k => /\ DayStart(p[j]) # <<>> /\ DayStart(p[k]) # <<>>
                 /\ DayStart(p[j])[1] <= DayStart(p[k])[1]

TimeOfDay(l) == l.drift[1].hour * 60 + l.drift[1].minute

\* The drift-rate lines whose time of day is earlier than that of the
\* drift-rate line before them.
Decreases(p) ==
    {k \in DriftLines(p) :
        \E j \in DriftLines(p) :
            /\ j < k
            /\ \A m \in DriftLines(p) : ~(j < m /\ m < k)
            /\ TimeOfDay(p[k]) < TimeOfDay(p[j])}

NonDecreasing(s) == \A k \in 1..(Len(s) - 1) : s[k] <= s[k + 1]

\* C4: after any prefix of the scan whose dates never move backwards and
\* whose drift samples' time of day decreases at most once, the recorded
\* timestamps are non-decreasing, and every elapsed-minutes value is >= 0.
C4_NonDecreasing ==
    (DatesNeverBack(Scanned) /\ Cardinality(Decreases(Scanned)) <= 1) =>
        /\ NonDecreasing(timestamps)
        /\ \A k \in 1..Len(time_values) : time_values[k] >= 0
        /\ pc = "done" => Len(time_values) = Len(timestamps)

C4_Witness ==
    /\ pc = "done"
    /\ DatesNeverBack(path)
    /\ Cardinality(Decreases(path)) = 1
    /\ Len(timestamps) = 3
    /\ time_values[3] > 0

(* ---------------- C7 ---------------- *)

\* C7: each recorded timestamp is built from the year, month and day of
\* the last date line at or before the sample's line, the sample's own line
\* included; the date context is that of the last date line scanned, while
\* run_date and run_start_time stay those of the first date line.
C7_MostRecentDate ==
    /\ \A k \in 1..Len(timestamps) :
           LET l == NthDrift(Scanned, k)
               c == ContextAt(path, l)
               candidate == Strptime(c[1], c[2], c[3], path[l].drift[1].hour,
                                     path[l].drift[1].minute)
           IN  /\ candidate # <<>>
               /\ timestamps[k] \in {candidate[1], candidate[1] + 24 * 60}
    /\ (pc # "error" /\ DateLines(Scanned) # {}) =>
           LET first == path[Min(DateLines(Scanned))].date[1]
           IN  /\ <<dyear[1], dmonth[1], dday[1]>> = ContextAt(path, i)
               /\ run_date = << <<first.dyear, first.dmonth, first.dday>> >>
               /\ run_start_time = <<first.dtime>>
    /\ (pc # "error" /\ DateLines(Scanned) = {}) =>
           /\ dyear = <<>> /\ run_date = <<>> /\ run_start_time = <<>>

C7_Witness ==
    /\ pc = "done"
    /\ Len(timestamps) = 2
    /\ path[NthDrift(path, 2)].date # <<>>
    /\ run_date[1] # <<dyear[1], dmonth[1], dday[1]>>
    /\ run_date[1] = ContextAt(path, Min(DateLines(path)))
    /\ <<timestamps[2]>> = Strptime(2024, "Dec", 1, 0, 2)
    /\ <<timestamps[1]>> = Strptime(2024, "Nov", 30, 23, 58)

(* ---------------- C9 ---------------- *)

\* C9: a file with a valid header, a drift-rate line and no wafer-centre
\* line never ends by one of the two fatal messages, never shows a plot and
\* can only end in an uncaught error; when the scan completes the error is
\* the IndexError of wafer_centre[0] if there are calibration blocks, and
\* the NameError of size_x, after plt.figure(), if there are none.
C9_NoCentreIsAnError ==
    (HasMarker /\ DriftLines(path) # {} /\ CentreLines(path) = {}) =>
        /\ pc \notin {"exit", "done", "timeseries"}
        /\ ~Shown
        /\ ~Printed(InvalidLogfileMsg) /\ ~Printed(NoDriftDataMsg)
        /\ Ended => (pc = "error" /\ error # "")
        /\ (pc = "error" /\ i = Len(path)) =>
               IF BlockLines(path) # {}
               THEN error = "IndexError" /\ plot_calls = <<>>
               ELSE error = "NameError" /\ plot_calls = << <<"figure">> >>
        /\ pc = "waferplot" => BlockLines(path) = {}

C9_Witness ==
    /\ HasMarker /\ CentreLines(path) = {}
    /\ DateLines(path) # {} /\ BlockLines(path) # {}
    /\ Len(timestamps) = 1
    /\ pc = "error" /\ error = "IndexError"

(* ---------------- C10 ---------------- *)

\* The drift-rate lines with no date line at or before them.
Undated(p) == {k \in DriftLines(p) : \A j \in DateLines(p) : j > k}

\* C10: when a drift-rate line has no date line at or before it, the scan
\* never gets past the first such line, which raises an uncaught error:
\* nothing is appended for it, no later line is scanned and no plot call is
\* made; and whenever the scan has reached the end of the file the three
\* lists have the length of the number of drift-rate lines.
C10_DateBeforeDrift ==
    /\ Undated(path) # {} =>
           LET k == Min(Undated(path))
           IN  /\ i < k
               /\ timestamps = <<>> /\ dxdt_values = <<>> /\ dydt_values = <<>>
               /\ previous_timestamp = <<>>
               /\ plot_calls = <<>>
               /\ ~PastScan
               /\ pc = "exit" => ~HasMarker
               /\ (pc = "error" /\ i = k - 1 /\ path[k].centre = <<>>) =>
                      error = "NameError" /\ drift_data_found
    /\ (pc # "header" /\ i = Len(path)) =>
           /\ Len(timestamps) = Cardinality(DriftLines(path))
           /\ Len(dxdt_values) = Len(timestamps)
           /\ Len(dydt_values) = Len(timestamps)

C10_Witness ==
    /\ Undated(path) # {}
    /\ pc = "error" /\ error = "NameError"
    /\ i = Min(Undated(path)) - 1
    /\ i + 1 < Len(path)
    /\ DateLines(path) # {} /\ CentreLines(path) # {}

(* ---------------- C5 ---------------- *)

\* A number of micrometres as a length: a micrometre is a thousandth of a
\* millimetre.
Micrometres(um) == um * (UnitsPerMm \div 1000)

FirstCentre(p) == p[Min(CentreLines(p))].centre[1]

LastCentre(p) == p[Max(CentreLines(p))].centre[1]

\* The k-th calibration-block line of p.
NthBlock(p, k) ==
    CHOOSE j \in BlockLines(p) : Cardinality({m \in BlockLines(p) : m <= j}) = k

\* One entry per calibration-block line, in file order: the block number
\* and the position less the centre of the wafer-centre groups c.
RelativeToCentre(p, c) ==
    [k \in 1..Cardinality(BlockLines(p)) |->
        LET b == p[NthBlock(p, k)].block[1]
        IN  <<b.block_number,
              b.x_coord - Micrometres(c.cx[2]),
              b.y_coord - Micrometres(c.cy[2])>>]

Count(s, e) == Cardinality({k \in 1..Len(s) : s[k] = e})

SameBag(s, t) ==
    /\ Len(s) = Len(t)
    /\ \A k \in 1..Len(s) : Count(s, s[k]) = Count(t, s[k])

Normalized == pc \in {"waferplot", "timeseries", "done"}

Plotted == pc \in {"timeseries", "done"}

\* The captured centre and size are those of the groups c.
CapturedIs(c) ==
    /\ wafer_centre = <<Micrometres(c.cx[2]), Micrometres(c.cy[2])>>
    /\ size_x = <<Micrometres(c.sx[2])>>
    /\ size_y = <<Micrometres(c.sy[2])>>

\* The centre the positions were normalised with and the size the plot
\* bounds were set from are those of the groups c.
UsedIs(c) ==
    /\ Normalized => SameBag(sorted_relative_drift_pos_data, RelativeToCentre(path, c))
    /\ Plotted =>
           /\ plot_calls[2] = <<"xlim", 0 - Micrometres(c.sx[2]) \div 2,
                                Micrometres(c.sx[2]) \div 2>>
           /\ plot_calls[3] = <<"ylim", 0 - Micrometres(c.sy[2]) \div 2,
                                Micrometres(c.sy[2]) \div 2>>

\* C5 as stated: with more than one wafer-centre line the first match wins:
\* later matches leave the captured centre and size unchanged, and the
\* centre and size used are those of the first matching line.
C5_Original ==
    Cardinality(CentreLines(path)) > 1 =>
        /\ CentreLines(Scanned) # {} => CapturedIs(FirstCentre(Scanned))
        /\ UsedIs(FirstCentre(path))

\* C5 amended: every wafer-centre match replaces the captured centre and
\* size, so the last match wins: the centre used for the normalisation and
\* the size used for the plot bounds are those of the last matching line.
C5_LastMatchWins ==
    /\ CentreLines(Scanned) # {} => CapturedIs(LastCentre(Scanned))
    /\ CentreLines(path) # {} => UsedIs(LastCentre(path))

C5_Witness ==
    /\ pc = "done"
    /\ Cardinality(CentreLines(path)) > 1
    /\ FirstCentre(path) # LastCentre(path)
    /\ BlockLines(path) # {}
    /\ CapturedIs(LastCentre(path))

(* ---------------- C6 ---------------- *)

RelativeLines == {k \in 1..Len(stdout) : stdout[k][1] = "Relative"}

\* C6 as stated: for any wafer-centre line of the file, with centre
\* (Cx, Cy), and every calibration-block line, at (X, Y), the relative
\* position reported is (X - Cx/1000, Y - Cy/1000), one per block line,
\* with the block number unchanged.
C6_Original ==
    Normalized =>
        \A l \in CentreLines(path) :
            SameBag(sorted_relative_drift_pos_data,
                    RelativeToCentre(path, path[l].centre[1]))

\* C6 amended: (Cx, Cy) is the centre of the last wafer-centre line of the
\* file; wherever the block lines stand relative to it, one relative
\* position (X - Cx/1000, Y - Cy/1000) is reported per block line, with the
\* block number unchanged.
C6_RelativeToLastCentre ==
    (Normalized /\ CentreLines(path) # {}) =>
        /\ SameBag(sorted_relative_drift_pos_data,
                   RelativeToCentre(path, LastCentre(path)))
        /\ Len(sorted_relative_drift_pos_data) = Cardinality(BlockLines(path))
        /\ Cardinality(RelativeLines) = Cardinality(BlockLines(path))

C6_Witness ==
    /\ pc = "done"
    /\ Cardinality(CentreLines(path)) = 1
    /\ \E j, k \in BlockLines(path) :
           /\ j < Min(CentreLines(path)) /\ Min(CentreLines(path)) < k
           /\ path[j] # path[k]
    /\ Len(sorted_relative_drift_pos_data) = 2

(* ---------------- C8 ---------------- *)

Magnitude(v) == IF v >= 0 THEN v ELSE 0 - v

\* v is the first element of s of the least magnitude.
FirstOfLeastMagnitude(v, s) ==
    \E j \in 1..Len(s) :
        /\ s[j] = v
        /\ \A k \in 1..Len(s) : Magnitude(s[j]) <= Magnitude(s[k])
        /\ \A k \in 1..(j - 1) : Magnitude(s[k]) # Magnitude(s[j])

\* v is the first element of s of the greatest magnitude.
FirstOfGreatestMagnitude(v, s) ==
    \E j \in 1..Len(s) :
        /\ s[j] = v
        /\ \A k \in 1..Len(s) : Magnitude(s[j]) >= Magnitude(s[k])
        /\ \A k \in 1..(j - 1) : Magnitude(s[k]) # Magnitude(s[j])

\* C8: the reported min and max of each axis are elements of its drift
\* rates, of the least and of the greatest magnitude, with their own sign,
\* the first in file order among equals; [-5.0, 3.2, -1.1] gives min -1.1
\* and max -5.0.
C8_MinMaxByMagnitude ==
    pc = "done" =>
        /\ dxdt_values # <<>> /\ dydt_values # <<>>
        /\ FirstOfLeastMagnitude(min_dx[1], dxdt_values)
        /\ FirstOfGreatestMagnitude(max_dx[1], dxdt_values)
        /\ FirstOfLeastMagnitude(min_dy[1], dydt_values)
        /\ FirstOfGreatestMagnitude(max_dy[1], dydt_values)
        /\ dxdt_values = <<-500, 320, -110>> =>
               (min_dx = <<-110>> /\ max_dx = <<-500>>)
        /\ stdout[Len(stdout)] =
               <<"Min/Max", min_dx[1], max_dx[1], min_dy[1], max_dy[1]>>

C8_Witness ==
    /\ pc = "done"
    /\ dxdt_values = <<-500, 320, -110>>
    /\ dydt_values = <<250, -110, 110>>
    /\ min_dx = <<-110>> /\ max_dx = <<-500>>
    /\ min_dy = <<-110>> /\ max_dy = <<250>>

====
